---- MODULE Spec2Model ----
(***************************************************************************)
(* Model of liquibase/cicd.py: the CI/CD Liquibase helper.                 *)
(*                                                                         *)
(* Text (file contents, the tool's standard output, the .secret file) is   *)
(* a sequence of tokens.  A token is one character, or one of the literal  *)
(* fragments the code searches for (the pieces of the changeSet pattern,   *)
(* the words of the error markers), so that "substring" is "contiguous     *)
(* subsequence" and a line break is a token like any other.                *)
(*                                                                         *)
(* A path is a sequence of components, a component a sequence of name      *)
(* fragments: schema/controller_old.xml is                                 *)
(*   << <<"schema">>, <<"controller", "_old", ".xml">> >>.                 *)
(***************************************************************************)
EXTENDS Integers, Sequences, FiniteSets, TLC

VARIABLES
    pc,            \* position in the script
    args,          \* the parsed command line
    secret,        \* the .secret file
    environ,       \* os.environ['TNS_ADMIN'] and the directory it names
    sqlnet,        \* sqlnet.ora of the wallet directory
    fs,            \* the changelog files
    orig,          \* fs as it was when the run started
    password,      \* the resolved password
    tns_admin,     \* the resolved config directory
    secretOpened,  \* open(".secret") was called
    exc,           \* the uncaught exception, "none" when there is none
    exitStatus,    \* the process exit status, -1 while running
    steps,         \* the pipeline steps performed so far, in order
    rmLog          \* the os.remove calls made so far, in order

vars == <<pc, args, secret, environ, sqlnet, fs, orig, password, tns_admin,
          secretOpened, exc, exitStatus, steps, rmLog>>

(***************************************************************************)
(* Bounds                                                                  *)
(***************************************************************************)
MaxLen == 5        \* tokens in a file given to post_generate
MaxOutLines == 2   \* lines of a transcript given to run_sqlcl

(***************************************************************************)
(* Tokens and text                                                         *)
(***************************************************************************)
NL == "\n"
CR == "\r"
SP == " "
Whitespace == {SP, NL, CR, "\t"}

Max(a, b) == IF a >= b THEN a ELSE b

SeqsUpTo(S, n) == UNION {[1..k -> S] : k \in 0..n}

\* x in s, for strings
Contains(s, x) ==
    \E i \in 1..(Len(s) - Len(x) + 1) : SubSeq(s, i, i + Len(x) - 1) = x

\* Reading one line from offset r of a file opened in text mode: universal
\* newlines, so "\n", "\r\n" and a lone "\r" all end the line and all read
\* as "\n".
RECURSIVE ReadLineFrom(_, _, _)
ReadLineFrom(raw, r, acc) ==
    IF r > Len(raw) THEN [line |-> acc, next |-> r]
    ELSE IF raw[r] = NL THEN [line |-> Append(acc, NL), next |-> r + 1]
    ELSE IF raw[r] = CR
         THEN [line |-> Append(acc, NL),
               next |-> IF r + 1 <= Len(raw) /\ raw[r + 1] = NL THEN r + 2 ELSE r + 1]
    ELSE ReadLineFrom(raw, r + 1, Append(acc, raw[r]))

\* for line in open(file, "r")
RECURSIVE ReadLinesFrom(_, _)
ReadLinesFrom(raw, r) ==
    IF r > Len(raw) THEN <<>>
    ELSE LET l == ReadLineFrom(raw, r, <<>>)
         IN  <<l.line>> \o ReadLinesFrom(raw, l.next)

ReadLines(raw) == ReadLinesFrom(raw, 1)

\* str.strip()
Strip(line) ==
    LET keep == {i \in 1..Len(line) : line[i] \notin Whitespace}
    IN  IF keep = {} THEN <<>>
        ELSE SubSeq(line,
                    CHOOSE i \in keep : \A j \in keep : i <= j,
                    CHOOSE i \in keep : \A j \in keep : i >= j)

\* str.split(): the maximal runs of non-whitespace
RECURSIVE SplitWords(_, _)
SplitWords(s, cur) ==
    IF s = <<>> THEN (IF cur = <<>> THEN <<>> ELSE <<cur>>)
    ELSE IF s[1] \in Whitespace
         THEN (IF cur = <<>> THEN <<>> ELSE <<cur>>) \o SplitWords(Tail(s), <<>>)
         ELSE SplitWords(Tail(s), Append(cur, s[1]))

Split(s) == SplitWords(s, <<>>)

\* str.splitlines(): the lines without their line breaks
RECURSIVE SplitLinesFrom(_, _)
SplitLinesFrom(s, cur) ==
    IF s = <<>> THEN (IF cur = <<>> THEN <<>> ELSE <<cur>>)
    ELSE IF s[1] = NL THEN <<cur>> \o SplitLinesFrom(Tail(s), <<>>)
    ELSE SplitLinesFrom(Tail(s), Append(cur, s[1]))

splitlines(s) == SplitLinesFrom(s, <<>>)

(***************************************************************************)
(* Files                                                                   *)
(***************************************************************************)
Absent == [exists |-> FALSE, data |-> <<>>]
File(data) == [exists |-> TRUE, data |-> data]

Areas == <<"admin", "schema", "data", "apex">>

ControllerOf(area) == << <<area>>, <<"controller", ".xml">> >>
SchemaControllerOld == << <<"schema">>, <<"controller", "_old", ".xml">> >>
SchemaTable == << <<"schema">>, <<"table", ".xml">> >>
SchemaSubView == << <<"schema">>, <<"sub">>, <<"view", ".xml">> >>
SchemaHidden == << <<"schema">>, <<".", "hidden", ".xml">> >>
ApexApp == << <<"apex">>, <<"f103", ".xml">> >>

Paths ==
    {ControllerOf(Areas[i]) : i \in 1..4}
        \cup {SchemaControllerOld, SchemaTable, SchemaSubView, SchemaHidden, ApexApp}

LastOf(s) == s[Len(s)]

\* glob.iglob(f'{directory}/**/*.xml', recursive=True): the name ends in
\* .xml, and neither * nor ** matches a name that starts with a dot
GlobMatches(file, directory) ==
    /\ Len(file) >= 2
    /\ file[1] = <<directory>>
    /\ LastOf(LastOf(file)) = ".xml"
    /\ Len(LastOf(file)) >= 2
    /\ \A i \in 2..Len(file) : file[i][1] # "."

Glob(files, directory) ==
    {p \in Paths : files[p].exists /\ GlobMatches(p, directory)}

\* the orders in which iglob may yield a set of files
Orders(S) ==
    {o \in [1..Cardinality(S) -> S] : \A i, j \in 1..Cardinality(S) : o[i] = o[j] => i = j}

\* file.startswith(f'{directory}/controller')
StartsWithController(file, directory) ==
    /\ Len(file) >= 2
    /\ file[1] = <<directory>>
    /\ file[2][1] = "controller"

(***************************************************************************)
(* pre_generate                                                            *)
(***************************************************************************)
CS == "<changeSet"
AU == "author=\""
LP == "("
RP == ")"
GEN == "-Generated\""
QT == "\""
X == "x"

\* re.search("\<changeSet.*author=\"\(.*\)-Generated\".*?", line): in a
\* Python pattern \( and \) are the literal parentheses, and . matches
\* anything but a line break
MatchesGenerated(line) ==
    \E i, j, k \in 1..Len(line) :
        /\ i < j /\ j + 1 < k /\ k + 1 <= Len(line)
        /\ line[i] = CS
        /\ line[j] = AU /\ line[j + 1] = LP
        /\ line[k] = RP /\ line[k + 1] = GEN
        /\ \A m \in i..(k + 1) : line[m] # NL

\* os.remove(file), on the state st = [fs, exc, rm] of a pre_generate call
os_remove(st, file) ==
    IF st.fs[file].exists
    THEN [st EXCEPT !.fs[file] = Absent, !.rm = Append(@, file)]
    ELSE [st EXCEPT !.exc = "FileNotFoundError", !.rm = Append(@, file)]

\* the inner loop, lines 43-47: `continue` goes on with the next line of
\* the same file, so a second matching line removes the file again
RECURSIVE ScanLines(_, _, _, _)
ScanLines(st, file, lines, i) ==
    IF i > Len(lines) \/ st.exc # "none" THEN st
    ELSE IF MatchesGenerated(lines[i])
         THEN ScanLines(os_remove(st, file), file, lines, i + 1)
         ELSE ScanLines(st, file, lines, i + 1)

\* the body of the outer loop, lines 38-47, for one file
PreGenerateFile(st, file, directory, remove_controller) ==
    IF StartsWithController(file, directory) /\ remove_controller
    THEN os_remove(st, file)
    ELSE ScanLines(st, file, ReadLines(st.fs[file].data), 1)

\* the outer loop over the files iglob yields, in the order `order`; an
\* exception ends the call
RECURSIVE PreGenerateLoop(_, _, _, _, _)
PreGenerateLoop(st, directory, remove_controller, order, n) ==
    IF n > Len(order) \/ st.exc # "none" THEN st
    ELSE PreGenerateLoop(PreGenerateFile(st, order[n], directory, remove_controller),
                         directory, remove_controller, order, n + 1)

pre_generate(files, directory, remove_controller, order) ==
    PreGenerateLoop([fs |-> files, exc |-> "none", rm |-> <<>>],
                    directory, remove_controller, order, 1)

(***************************************************************************)
(* post_generate                                                           *)
(***************************************************************************)
\* writer.write(line) at offset w of the file
WriteAt(file, w, data) ==
    [i \in 1..Max(Len(file), w + Len(data) - 1) |->
        IF i >= w /\ i < w + Len(data) THEN data[i - w + 1] ELSE file[i]]

\* lines 56-60: a reader at offset r and a writer at offset w on the same
\* file; every line with a non-whitespace character is written back, and
\* the file is cut at the writer's offset
RECURSIVE Rewrite(_, _, _)
Rewrite(file, r, w) ==
    IF r > Len(file) THEN SubSeq(file, 1, w - 1)
    ELSE LET l == ReadLineFrom(file, r, <<>>)
         IN  IF Strip(l.line) # <<>>
             THEN Rewrite(WriteAt(file, w, l.line), l.next, w + Len(l.line))
             ELSE Rewrite(file, l.next, w)

post_generate(files, directory) ==
    [p \in Paths |->
        IF p \in Glob(files, directory) THEN File(Rewrite(files[p].data, 1, 1))
        ELSE files[p]]


(***************************************************************************)
(* run_sqlcl                                                               *)
(***************************************************************************)
error_matches ==
    { <<"Error", SP, "Message">>, <<"ORA-">>, <<"SQL", SP, "Error">>,
      <<"Validation", SP, "Failed">>,
      <<"Unexpected", SP, "internal", SP, "error">> }

\* filter(None, result_list): the lines that are not the empty string
NonEmpty(line) == line # <<>>

\* the loop of lines 80-83 over the filtered lines
RECURSIVE ScanTranscript(_, _, _)
ScanTranscript(lines, i, exit_status) ==
    IF i > Len(lines) THEN exit_status
    ELSE IF \E x \in error_matches : Contains(lines[i], x)
         THEN ScanTranscript(lines, i + 1, 1)
         ELSE ScanTranscript(lines, i + 1, exit_status)

SqlclFailed_ExitCodeOnly(returncode, stdout) ==
    returncode # 0

\* line 84: result.returncode or exit_status
SqlclFailed(returncode, stdout) ==
    \/ returncode # 0
    \/ ScanTranscript(SelectSeq(splitlines(stdout), NonEmpty), 1, 0) # 0

(***************************************************************************)
(* The steps of the three actions                                          *)
(***************************************************************************)
ADMIN == <<"ADMIN">>
ProxyUser(dbUser) == <<"ADMIN", "[", dbUser, "]">>

NoResult == [returncode |-> 0, stdout |-> <<>>, wrote |-> FALSE]

Step(op, path, user, cmd, flag) ==
    [op |-> op, path |-> path, user |-> user, cmd |-> cmd, flag |-> flag]

deploy_WrongOrder(dbUser) ==
    << Step("deploy_call", "schema", ProxyUser(dbUser), "lb update", FALSE),
       Step("deploy_call", "admin", ADMIN, "lb update", FALSE),
       Step("deploy_call", "data", ProxyUser(dbUser), "lb update", FALSE),
       Step("deploy_call", "apex", ProxyUser(dbUser), "lb update", FALSE) >>

deploy(dbUser) ==
    << Step("deploy_call", "admin", ADMIN, "lb update", FALSE),
       Step("deploy_call", "schema", ProxyUser(dbUser), "lb update", FALSE),
       Step("deploy_call", "data", ProxyUser(dbUser), "lb update", FALSE),
       Step("deploy_call", "apex", ProxyUser(dbUser), "lb update", FALSE) >>

generate_PostBeforeExport(dbUser) ==
    << Step("pre_generate", "schema", <<>>, "", TRUE),
       Step("post_generate", "schema", <<>>, "", FALSE),
       Step("run_sqlcl", "schema", ProxyUser(dbUser), "lb generate-schema", FALSE),
       Step("pre_generate", "apex", <<>>, "", FALSE),
       Step("run_sqlcl", "apex", ProxyUser(dbUser), "lb generate-apex-object", FALSE),
       Step("post_generate", "apex", <<>>, "", FALSE) >>

generate(dbUser) ==
    << Step("pre_generate", "schema", <<>>, "", TRUE),
       Step("run_sqlcl", "schema", ProxyUser(dbUser), "lb generate-schema", FALSE),
       Step("post_generate", "schema", <<>>, "", FALSE),
       Step("pre_generate", "apex", <<>>, "", FALSE),
       Step("run_sqlcl", "apex", ProxyUser(dbUser), "lb generate-apex-object", FALSE),
       Step("post_generate", "apex", <<>>, "", FALSE) >>

destroy(dbUser) ==
    << Step("run_sqlcl", "admin", ADMIN, "lb rollback-count", FALSE) >>

\* args.func
Func(a) ==
    CASE a.action = "deploy" -> deploy(a.dbUser)
      [] a.action = "generate" -> generate(a.dbUser)
      [] a.action = "destroy" -> destroy(a.dbUser)
      [] OTHER -> <<>>

\* what a performed step leaves in `steps`
Done(step, result, ok) ==
    [op |-> step.op, path |-> step.path, user |-> step.user, cmd |-> step.cmd,
     flag |-> step.flag, returncode |-> result.returncode,
     stdout |-> result.stdout, wrote |-> result.wrote, ok |-> ok]

(***************************************************************************)
(* The password and the config directory                                   *)
(***************************************************************************)
NoPassword == [set |-> FALSE, val |-> <<>>]
Password(val) == [set |-> TRUE, val |-> val]

\* lines 172-173: open(".secret"), f.readline().split()[-1]; a missing file
\* and a first line without a word raise, and the bare except catches both
SecretPassword_FirstOfLast(sf) ==
    IF ~sf.exists THEN NoPassword
    ELSE LET lines == ReadLines(sf.data)
             words == IF lines = <<>> THEN <<>> ELSE Split(LastOf(lines))
         IN  IF words = <<>> THEN NoPassword ELSE Password(words[1])

SecretPassword(sf) ==
    IF ~sf.exists THEN NoPassword
    ELSE LET words == Split(ReadLineFrom(sf.data, 1, <<>>).line)
         IN  IF words = <<>> THEN NoPassword ELSE Password(LastOf(words))

\* if args.dbPass: None and the empty string are both false
Truthy(opt) == opt.given /\ opt.val # <<>>

PLACEHOLDER == "?/network/admin"

\* s.replace('DIRECTORY="?/network/admin"', 'DIRECTORY="'+tns_admin+'"')
ReplaceDirectory(s, dir) ==
    [i \in 1..Len(s) |->
        IF /\ s[i] = PLACEHOLDER
           /\ i > 1 /\ s[i - 1] = "DIRECTORY=\""
           /\ i < Len(s) /\ s[i + 1] = QT
        THEN dir ELSE s[i]]

\* the sqlnet.ora a wallet archive holds
WalletSqlnet ==
    <<"WALLET_LOCATION", SP, "DIRECTORY=\"", PLACEHOLDER, QT, NL,
      "SSL_SERVER_DN_MATCH=yes", NL>>

\* upd_sqlnet: extract the archive beside itself and patch sqlnet.ora
Dirname(path) == path[1]

upd_sqlnet(wallet) ==
    File(ReplaceDirectory(WalletSqlnet, Dirname(wallet)))

(***************************************************************************)
(* The external tool                                                       *)
(***************************************************************************)
CleanOut == <<"x", NL, NL, "x", SP, "x", NL>>
OraOut == <<"x", NL, "ORA-", "00001", SP, "x", NL>>

\* what `sql /nolog` may report in a run of the script
ToolResults ==
    {[returncode |-> c, stdout |-> o, wrote |-> w] :
        c \in {0, 1}, o \in {CleanOut, OraOut}, w \in BOOLEAN}

HandWritten == <<CS, SP, AU, X, QT, NL>>
Generated == <<CS, SP, AU, LP, X, RP, GEN, NL>>
GeneratedTwice == Generated \o <<NL>> \o Generated
GeneratedPlain == <<CS, SP, AU, X, GEN, NL>>

GeneratedFileOf(area) == IF area = "apex" THEN ApexApp ELSE SchemaTable

\* the files an export command writes into its working directory: the
\* area's controller and a generated changelog, with a blank line in it
ToolWrites(files, step, wrote) ==
    IF wrote /\ step.cmd \in {"lb generate-schema", "lb generate-apex-object"}
    THEN [files EXCEPT ![ControllerOf(step.path)] = File(HandWritten),
                       ![GeneratedFileOf(step.path)] = File(<<NL>> \o GeneratedTwice)]
    ELSE files

(***************************************************************************)
(* The script                                                              *)
(***************************************************************************)
At(at, i) == [at |-> at, i |-> i]

\* sys.exit(status), and the exit of an uncaught exception
Exit(status) ==
    /\ pc' = At("exit", 0)
    /\ exitStatus' = status

Goto(at, i) ==
    /\ pc' = At(at, i)
    /\ UNCHANGED exitStatus

ExitsOnFailure_Never(failed) == FALSE

\* lines 84-86: if result.returncode or exit_status: sys.exit(1)
ExitsOnFailure(failed) == failed

\* lines 154-164
ParseArgs ==
    /\ pc.at = "args"
    /\ IF args.action = "help"
       THEN Exit(0) /\ UNCHANGED exc
       ELSE IF args.debug
            THEN exc' = "AttributeError" /\ Exit(1)
            ELSE Goto("password", 0) /\ UNCHANGED exc
    /\ UNCHANGED <<args, secret, environ, sqlnet, fs, orig, password, tns_admin,
                   secretOpened, steps, rmLog>>

\* lines 168-176
ResolvePassword ==
    /\ pc.at = "password"
    /\ IF Truthy(args.dbPass)
       THEN /\ password' = Password(args.dbPass.val)
            /\ UNCHANGED secretOpened
            /\ Goto("tns_admin", 0)
       ELSE /\ secretOpened' = TRUE
            /\ password' = SecretPassword(secret)
            /\ IF SecretPassword(secret).set THEN Goto("tns_admin", 0) ELSE Exit(1)
    /\ UNCHANGED <<args, secret, environ, sqlnet, fs, orig, tns_admin, exc, steps, rmLog>>

\* lines 179-190
ResolveTnsAdmin ==
    /\ pc.at = "tns_admin"
    /\ IF Truthy(args.dbWallet)
       THEN /\ sqlnet' = upd_sqlnet(args.dbWallet.val)
            /\ tns_admin' = Dirname(args.dbWallet.val)
            /\ Goto("func", 1)
       ELSE /\ UNCHANGED sqlnet
            /\ IF ~environ.set
               THEN UNCHANGED tns_admin /\ Exit(1)
               ELSE /\ tns_admin' = environ.dir
                    /\ IF environ.tnsnames THEN Goto("func", 1) ELSE Exit(1)
    /\ UNCHANGED <<args, secret, environ, fs, orig, password, secretOpened, exc,
                   steps, rmLog>>

Running == pc.at = "func" /\ pc.i <= Len(Func(args))
Cur == Func(args)[pc.i]

\* run_sqlcl, lines 62-88, for the step `step`, going on at `next`; the tool
\* answers with one of `results`
run_sqlcl(step, next, results) ==
    \E result \in results :
        LET failed == SqlclFailed(result.returncode, result.stdout)
        IN  /\ fs' = ToolWrites(fs, step, result.wrote)
            /\ steps' = Append(steps, Done(step, result, ~failed))
            /\ IF ExitsOnFailure(failed) THEN Exit(1) ELSE pc' = next /\ UNCHANGED exitStatus

\* deploy_call, lines 90-94
DeployCall ==
    /\ Running /\ Cur.op = "deploy_call"
    /\ IF fs[ControllerOf(Cur.path)].exists
       THEN run_sqlcl(Cur, At("func", pc.i + 1), ToolResults)
       ELSE Goto("func", pc.i + 1) /\ UNCHANGED <<fs, steps>>
    /\ UNCHANGED <<args, secret, environ, sqlnet, orig, password, tns_admin,
                   secretOpened, exc, rmLog>>

\* the run_sqlcl calls of generate and destroy, lines 109, 117 and 122
RunSqlcl ==
    /\ Running /\ Cur.op = "run_sqlcl"
    /\ run_sqlcl(Cur, At("func", pc.i + 1), ToolResults)
    /\ UNCHANGED <<args, secret, environ, sqlnet, orig, password, tns_admin,
                   secretOpened, exc, rmLog>>

\* a call of pre_generate for the step `step`, going on at `next`; an
\* exception it raises is caught nowhere and ends the process with status 1
CallPre(step, next) ==
    \E order \in Orders(Glob(fs, step.path)) :
        LET st == pre_generate(fs, step.path, step.flag, order)
        IN  /\ fs' = st.fs
            /\ rmLog' = rmLog \o st.rm
            /\ exc' = st.exc
            /\ steps' = Append(steps, Done(step, NoResult, st.exc = "none"))
            /\ IF st.exc # "none" THEN Exit(1) ELSE pc' = next /\ UNCHANGED exitStatus

\* the pre_generate calls of generate, lines 106 and 114
PreGenerate ==
    /\ Running /\ Cur.op = "pre_generate"
    /\ CallPre(Cur, At("func", pc.i + 1))
    /\ UNCHANGED <<args, secret, environ, sqlnet, orig, password, tns_admin, secretOpened>>

\* the post_generate calls of generate, lines 110 and 118
PostGenerate ==
    /\ Running /\ Cur.op = "post_generate"
    /\ fs' = post_generate(fs, Cur.path)
    /\ steps' = Append(steps, Done(Cur, NoResult, TRUE))
    /\ Goto("func", pc.i + 1)
    /\ UNCHANGED <<args, secret, environ, sqlnet, orig, password, tns_admin,
                   secretOpened, exc, rmLog>>

\* line 193: args.func returned
FuncReturn ==
    /\ pc.at = "func" /\ pc.i > Len(Func(args))
    /\ Exit(0)
    /\ UNCHANGED <<args, secret, environ, sqlnet, fs, orig, password, tns_admin,
                   secretOpened, exc, steps, rmLog>>

(***************************************************************************)
(* The runs of the script                                                  *)
(*                                                                         *)
(* The runs start with the area directories present, the `sql` executable  *)
(* installed and, when a wallet is given, a readable archive: the I/O      *)
(* errors of subprocess.run and zipfile are outside the model.  The        *)
(* exceptions the script itself provokes (os.remove of a file it has       *)
(* already removed, log.getLogger) are in it.                              *)
(***************************************************************************)
Opt(val) == [given |-> TRUE, val |-> val]
NoOpt == [given |-> FALSE, val |-> <<>>]

DbPasses == {NoOpt, Opt(<<>>), Opt(<<"f", "p">>)}

Secrets ==
    { Absent,
      File(<<>>),
      File(<<"a", SP, "b", "c", NL, "d", SP, "e", NL>>),
      File(<<SP, NL, "a", NL>>) }

NoEnviron == [set |-> FALSE, dir |-> "", tnsnames |-> FALSE]

\* the wallet given, or TNS_ADMIN unset, set to a directory with a
\* tnsnames.ora, set to one without
NetConfigs ==
    { [dbWallet |-> Opt(<<"/tmp", "wallet.zip">>), environ |-> NoEnviron],
      [dbWallet |-> NoOpt, environ |-> NoEnviron],
      [dbWallet |-> NoOpt, environ |-> [set |-> TRUE, dir |-> "/opt/tns", tnsnames |-> TRUE]],
      [dbWallet |-> NoOpt, environ |-> [set |-> TRUE, dir |-> "/opt/tns", tnsnames |-> FALSE]] }

Args(action, debug, dbPass, dbWallet) ==
    [action |-> action, dbName |-> "DB", dbUser |-> "DEMO", debug |-> debug,
     dbPass |-> dbPass, dbWallet |-> dbWallet]

HelpArgs == Args("help", FALSE, NoOpt, NoOpt)

\* the changelog trees a run starts from: the controllers of any subset of
\* the areas, and a generated changelog or none under schema and apex
RunTrees ==
    {[p \in Paths |->
        IF \E i \in S : p = ControllerOf(Areas[i]) THEN File(HandWritten)
        ELSE IF p = SchemaTable THEN t
        ELSE IF p = ApexApp THEN a
        ELSE Absent] :
        S \in SUBSET (1..4),
        t \in {Absent, File(Generated), File(GeneratedTwice)},
        a \in {Absent, File(Generated)}}

Fresh ==
    /\ password = NoPassword
    /\ tns_admin = ""
    /\ sqlnet = Absent
    /\ secretOpened = FALSE
    /\ exc = "none"
    /\ exitStatus = -1
    /\ steps = <<>>
    /\ rmLog = <<>>
    /\ orig = fs

Init ==
    /\ pc = At("args", 0)
    /\ \/ /\ args = HelpArgs
          /\ secret = Absent
          /\ environ = NoEnviron
          /\ fs = [p \in Paths |-> Absent]
       \/ /\ \E action \in {"deploy", "generate", "destroy"}, debug \in BOOLEAN,
                dbPass \in DbPasses, net \in NetConfigs :
                /\ args = Args(action, debug, dbPass, net.dbWallet)
                /\ environ = net.environ
          /\ secret \in Secrets
          /\ fs \in RunTrees
    /\ Fresh

Next ==
    \/ ParseArgs
    \/ ResolvePassword
    \/ ResolveTnsAdmin
    \/ DeployCall
    \/ RunSqlcl
    \/ PreGenerate
    \/ PostGenerate
    \/ FuncReturn

Spec == Init /\ [][Next]_vars

(***************************************************************************)
(* pre_generate on its own, over the trees of one area                     *)
(***************************************************************************)
\* a call of one function, outside a run of the script
NoRun ==
    /\ args = Args("call", FALSE, NoOpt, NoOpt)
    /\ secret = Absent
    /\ environ = NoEnviron

PreContents ==
    {Absent, File(HandWritten), File(Generated), File(GeneratedTwice), File(GeneratedPlain)}

PreTrees ==
    {[p \in Paths |->
        IF p = ControllerOf("schema") THEN c
        ELSE IF p = SchemaControllerOld THEN o
        ELSE IF p = SchemaTable THEN t
        ELSE IF p = SchemaSubView THEN v
        ELSE IF p = SchemaHidden THEN h
        ELSE Absent] :
        c \in PreContents, o \in PreContents, t \in PreContents, v \in PreContents,
        h \in {Absent, File(Generated)}}

InitPre ==
    /\ pc = At("call", 0)
    /\ NoRun
    /\ fs \in PreTrees
    /\ Fresh

CallPreGenerate ==
    /\ pc.at = "call"
    /\ \E remove_controller \in BOOLEAN :
        CallPre(Step("pre_generate", "schema", <<>>, "", remove_controller),
                At("returned", 0))
    /\ UNCHANGED <<args, secret, environ, sqlnet, orig, password, tns_admin, secretOpened>>

NextPre == CallPreGenerate

SpecPre == InitPre /\ [][NextPre]_vars

(***************************************************************************)
(* post_generate on its own, over the contents of one file                 *)
(***************************************************************************)
PostTokens == {"a", "b", SP, NL, CR}

InitPost ==
    /\ pc = At("call", 0)
    /\ NoRun
    /\ \E data \in SeqsUpTo(PostTokens, MaxLen) :
        fs = [p \in Paths |-> IF p = SchemaTable THEN File(data) ELSE Absent]
    /\ Fresh

\* post_generate('schema'), run once and then once more
CallPostGenerate ==
    /\ pc.at = "call" /\ pc.i < 2
    /\ fs' = post_generate(fs, "schema")
    /\ steps' = Append(steps, Done(Step("post_generate", "schema", <<>>, "", FALSE),
                                   NoResult, TRUE))
    /\ Goto("call", pc.i + 1)
    /\ UNCHANGED <<args, secret, environ, sqlnet, orig, password, tns_admin,
                   secretOpened, exc, rmLog>>

NextPost == CallPostGenerate

SpecPost == InitPost /\ [][NextPost]_vars

(***************************************************************************)
(* run_sqlcl on its own, over the transcripts of the tool                  *)
(***************************************************************************)
OutLines ==
    { <<>>, <<SP>>, <<"x">>,
      <<"ORA-", "00001", SP, "x">>,
      <<"x", SP, "Error", SP, "Message">>,
      <<"SQL", SP, "Error">>,
      <<"Validation", SP, "Failed">>,
      <<"Unexpected", SP, "internal", SP, "error">>,
      <<"Error">>, <<"Message">>, <<"SQL", SP, "x">>, <<"ORA">>,
      <<"Validation", "Failed">>, <<"Unexpected", SP, "internal">> }

RECURSIVE JoinLines(_)
JoinLines(ls) == IF ls = <<>> THEN <<>> ELSE Head(ls) \o <<NL>> \o JoinLines(Tail(ls))

\* the exit codes of a process: success, failure, killed by a signal
ReturnCodes == {0, 1, -9}

AllToolResults ==
    {[returncode |-> c, stdout |-> JoinLines(ls), wrote |-> FALSE] :
        c \in ReturnCodes, ls \in SeqsUpTo(OutLines, MaxOutLines)}

InitSqlcl ==
    /\ pc = At("call", 0)
    /\ NoRun
    /\ fs = [p \in Paths |-> Absent]
    /\ Fresh

CallRunSqlcl ==
    /\ pc.at = "call"
    /\ run_sqlcl(Step("run_sqlcl", "admin", ADMIN, "lb rollback-count", FALSE),
                 At("returned", 0), AllToolResults)
    /\ UNCHANGED <<args, secret, environ, sqlnet, orig, password, tns_admin,
                   secretOpened, exc, rmLog>>

NextSqlcl == CallRunSqlcl

SpecSqlcl == InitSqlcl /\ [][NextSqlcl]_vars

(***************************************************************************)
(* The claims.  What they need is stated here in its own terms, not in the *)
(* terms of the operators above.                                           *)
(***************************************************************************)
Called == steps # <<>>
Ended == pc.at = "exit"
Range(q) == {q[i] : i \in 1..Len(q)}
Count(q, x) == Cardinality({i \in 1..Len(q) : q[i] = x})
IsPrefix(q, r) == Len(q) <= Len(r) /\ SubSeq(r, 1, Len(q)) = q

\* an XML file under the area directory
XmlUnder(p, directory) ==
    Len(p) >= 2 /\ p[1] = <<directory>> /\ LastOf(LastOf(p)) = ".xml"

\* the lines of a text as they lie in the file: cut after each "\n", and
\* otherwise byte for byte
PhysicalLines(data) ==
    LET ends == {i \in 1..Len(data) : data[i] = NL} \cup {Len(data)}
        starts == {1} \cup {i + 1 : i \in {e \in ends : e < Len(data)}}
    IN  {SubSeq(data, b, CHOOSE e \in ends : e >= b /\ \A f \in ends : f >= b => e <= f) :
            b \in {x \in starts : x <= Len(data)}}

NonBlank(line) == \E i \in 1..Len(line) : line[i] \notin Whitespace

\* a changeSet tag whose author attribute ends in -Generated
GeneratedChangeSet(line) ==
    \E i, j, k \in 1..Len(line) :
        /\ i < j /\ j < k
        /\ line[i] = CS /\ line[j] = AU /\ line[k] = GEN
        /\ \A m \in (j + 1)..(k - 1) : line[m] \notin {QT, NL}

HasGenerated(f) ==
    f.exists /\ \E line \in PhysicalLines(f.data) : GeneratedChangeSet(line)

\* C1: after pre_generate(directory, remove_controller), for either value
\* of remove_controller, no XML file under the directory that held a
\* changeset line with an author ending in -Generated is left.
C1_GeneratedFilesDeleted ==
    Called =>
        \A p \in Paths :
            (XmlUnder(p, steps[1].path) /\ HasGenerated(orig[p])) => ~fs[p].exists

\* C2: after pre_generate(directory, remove_controller), every XML file
\* without a generated-changeset line is as it was, except
\* <directory>/controller.xml when remove_controller is set.
C2_OthersUntouched ==
    Called =>
        \A p \in Paths :
            ( /\ XmlUnder(p, steps[1].path)
              /\ orig[p].exists
              /\ ~HasGenerated(orig[p])
              /\ ~(steps[1].flag /\ p = ControllerOf(steps[1].path)) )
            => fs[p] = orig[p]

MatchingLines(f) ==
    LET lines == ReadLines(f.data)
    IN  Cardinality({i \in 1..Len(lines) : MatchesGenerated(lines[i])})

\* C8: a file with two or more matching lines is deleted by exactly one
\* os.remove, pre_generate raises nothing, and every other file of the
\* directory with a matching line is deleted as well.
C8_OneDeletePerFile ==
    Called =>
        \A p \in Glob(orig, steps[1].path) :
            ( /\ ~(steps[1].flag /\ StartsWithController(p, steps[1].path))
              /\ MatchingLines(orig[p]) >= 2 )
            => /\ Count(rmLog, p) = 1
               /\ exc = "none"
               /\ \A q \in Glob(orig, steps[1].path) :
                    MatchingLines(orig[q]) >= 1 => ~fs[q].exists

\* the lines of a file, from offset b on, that post_generate is to keep:
\* those with a non-whitespace character, joined as they are
RECURSIVE KeptFrom(_, _)
KeptFrom(data, b) ==
    IF b > Len(data) THEN <<>>
    ELSE LET e == CHOOSE x \in b..Len(data) :
                    /\ (data[x] = NL \/ x = Len(data))
                    /\ \A y \in b..(x - 1) : data[y] # NL
             l == SubSeq(data, b, e)
         IN  (IF NonBlank(l) THEN l ELSE <<>>) \o KeptFrom(data, e + 1)

KeptLines(data) == KeptFrom(data, 1)

\* C7: after post_generate the file is exactly its lines that hold a
\* non-whitespace character, unaltered and in order; a second run changes
\* nothing; a file without blank lines is unchanged.
C7_LinePreservingIdempotent ==
    Called =>
        /\ fs[SchemaTable].data = KeptLines(orig[SchemaTable].data)
        /\ post_generate(fs, "schema") = fs
        /\ (\A l \in PhysicalLines(orig[SchemaTable].data) : NonBlank(l)) => fs = orig

\* post_generate is idempotent (the part of C7 the code keeps)
PostGenerateIdempotent ==
    Called => post_generate(fs, "schema") = fs

ClaimMarkers ==
    { <<"Error", SP, "Message">>, <<"ORA-">>, <<"SQL", SP, "Error">>,
      <<"Validation", SP, "Failed">>,
      <<"Unexpected", SP, "internal", SP, "error">> }

MarkerLine(stdout) ==
    \E l \in PhysicalLines(stdout) :
        NonBlank(l) /\ \E m \in ClaimMarkers : Contains(l, m)

\* C3: run_sqlcl takes an invocation for successful exactly when the exit
\* code is zero and no non-blank line of the standard output holds one of
\* the five markers; ORA-00001 anywhere in the output is a failure even
\* with exit code 0; a failure ends the process with status 1.
C3_SuccessIffCleanAndZero ==
    Called =>
        /\ steps[1].ok <=> (steps[1].returncode = 0 /\ ~MarkerLine(steps[1].stdout))
        /\ Contains(steps[1].stdout, <<"ORA-", "00001">>) => ~steps[1].ok
        /\ steps[1].ok <=> pc = At("returned", 0)
        /\ ~steps[1].ok <=> (Ended /\ exitStatus = 1)

C3_Witness ==
    /\ Called
    /\ steps[1].returncode = 0
    /\ Contains(steps[1].stdout, <<"ORA-", "00001">>)
    /\ Ended /\ exitStatus = 1

Invocation(s) == s.op \in {"deploy_call", "run_sqlcl"}

\* C4: a failed invocation is the last step of the run: nothing is invoked,
\* pre-processed or post-processed after it, it is not repeated, and the
\* process has ended with status 1; status 0 is reached only when every
\* invocation performed succeeded.
C4_FirstFailureAborts ==
    /\ \A i \in 1..Len(steps) :
        (Invocation(steps[i]) /\ ~steps[i].ok)
            => (i = Len(steps) /\ Ended /\ exitStatus = 1)
    /\ (Ended /\ exitStatus = 0)
            => \A i \in 1..Len(steps) : Invocation(steps[i]) => steps[i].ok

C4_Witness ==
    /\ Ended /\ exitStatus = 1
    /\ Len(steps) >= 2
    /\ Invocation(steps[Len(steps)]) /\ ~steps[Len(steps)].ok
    /\ Invocation(steps[1]) /\ steps[1].ok

HasController(area) == orig[ControllerOf(area)].exists

\* the invocations a deploy is to make: one per area with a controller
ExpectedDeploy ==
    LET S == SelectSeq(Areas, HasController)
    IN  [i \in 1..Len(S) |->
            [path |-> S[i],
             user |-> IF S[i] = "admin" THEN <<"ADMIN">>
                      ELSE <<"ADMIN", "[", args.dbUser, "]">>,
             cmd |-> "lb update"]]

Invoked ==
    [i \in 1..Len(steps) |->
        [path |-> steps[i].path, user |-> steps[i].user, cmd |-> steps[i].cmd]]

\* C5: a deploy invokes the tool for the areas whose controller.xml
\* exists, in the order admin, schema, data, apex, as ADMIN for admin and
\* as ADMIN[dbUser] for the others, never for another area and never
\* twice; when all invocations succeed it has invoked it for each of them.
C5_DeployInvokesControllers ==
    args.action = "deploy" =>
        /\ IsPrefix(Invoked, ExpectedDeploy)
        /\ (Ended /\ exitStatus = 0) => Invoked = ExpectedDeploy

C5_Witness ==
    /\ args.action = "deploy" /\ Ended /\ exitStatus = 0
    /\ \A i \in 1..4 : HasController(Areas[i]) <=> Areas[i] = "admin"
    /\ Len(steps) = 1
    /\ steps[1].path = "admin" /\ steps[1].user = <<"ADMIN">>

\* the first line of a text, without its line break
FirstLine(data) ==
    LET breaks == {i \in 1..Len(data) : data[i] \in {NL, CR}}
    IN  IF breaks = {} THEN data
        ELSE SubSeq(data, 1, (CHOOSE i \in breaks : \A j \in breaks : i <= j) - 1)

LastLine(data) ==
    LET body == IF data # <<>> /\ LastOf(data) = NL
                THEN SubSeq(data, 1, Len(data) - 1) ELSE data
        breaks == {i \in 1..Len(body) : body[i] \in {NL, CR}}
    IN  IF breaks = {} THEN body
        ELSE SubSeq(body, (CHOOSE i \in breaks : \A j \in breaks : i >= j) + 1, Len(body))

\* the whitespace-delimited tokens of a line, as index pairs
Words(line) ==
    {w \in (1..Len(line)) \X (1..Len(line)) :
        /\ w[1] <= w[2]
        /\ \A i \in w[1]..w[2] : line[i] \notin Whitespace
        /\ (w[1] = 1 \/ line[w[1] - 1] \in Whitespace)
        /\ (w[2] = Len(line) \/ line[w[2] + 1] \in Whitespace)}

FirstWord(line) ==
    IF Words(line) = {} THEN NoPassword
    ELSE LET w == CHOOSE w \in Words(line) : \A v \in Words(line) : w[1] <= v[1]
         IN  Password(SubSeq(line, w[1], w[2]))

LastWord(line) ==
    IF Words(line) = {} THEN NoPassword
    ELSE LET w == CHOOSE w \in Words(line) : \A v \in Words(line) : w[1] >= v[1]
         IN  Password(SubSeq(line, w[1], w[2]))

PasswordRule(expected, fromFlag) ==
    /\ password.set => password = expected
    /\ pc.at \in {"tns_admin", "func"} => password.set
    /\ fromFlag => ~secretOpened
    /\ (args.action # "help" /\ ~expected.set /\ pc.at \notin {"args", "password"})
        => /\ Ended /\ exitStatus = 1
           /\ steps = <<>> /\ sqlnet = Absent /\ tns_admin = ""

OpsOf(q) == [i \in 1..Len(q) |-> <<q[i].op, q[i].path, q[i].flag>>]

GenerateOrder ==
    << <<"pre_generate", "schema", TRUE>>,
       <<"run_sqlcl", "schema", FALSE>>,
       <<"post_generate", "schema", FALSE>>,
       <<"pre_generate", "apex", FALSE>>,
       <<"run_sqlcl", "apex", FALSE>>,
       <<"post_generate", "apex", FALSE>> >>

\* C9: a generate run performs a prefix of pre-process schema (controller
\* removed), export schema, post-process schema, pre-process apex
\* (controller kept), export apex, post-process apex; an area is
\* post-processed only right after its export succeeded; no file under
\* apex differs from the start before schema has been post-processed; and
\* a file the pre-processor deleted exists again only if the tool wrote.
C9_GenerateOrder ==
    args.action = "generate" =>
        /\ IsPrefix(OpsOf(steps), GenerateOrder)
        /\ \A i \in 1..Len(steps) :
            steps[i].op = "post_generate"
                => /\ i > 1
                   /\ steps[i - 1].op = "run_sqlcl"
                   /\ steps[i - 1].path = steps[i].path
                   /\ steps[i - 1].ok
        /\ (~\E i \in 1..Len(steps) :
                steps[i].op = "post_generate" /\ steps[i].path = "schema")
            => \A p \in Paths : p[1] = <<"apex">> => fs[p] = orig[p]
        /\ \A p \in Range(rmLog) :
            fs[p].exists => \E i \in 1..Len(steps) : steps[i].wrote

C9_Witness ==
    /\ args.action = "generate" /\ Ended /\ exitStatus = 1
    /\ Len(steps) = 2 /\ ~steps[2].ok /\ ~steps[2].wrote
    /\ rmLog # <<>>
    /\ \E p \in Range(rmLog) : orig[p].exists /\ ~fs[p].exists

C9_WitnessComplete ==
    /\ args.action = "generate" /\ Ended /\ exitStatus = 0
    /\ OpsOf(steps) = GenerateOrder

\* C10: a run with --debug does what the run without it does: like every
\* run of an action without --debug, it does not end before the password
\* has been looked for (given by the flag, or .secret opened).
C10_DebugOnlyChangesLogging ==
    (args.debug /\ args.action # "help" /\ Ended)
        => (password.set \/ secretOpened)

\* the same of the runs without --debug
PlainRunsResolvePassword ==
    (~args.debug /\ args.action # "help" /\ Ended)
        => (password.set \/ secretOpened)

====
